---- MODULE Spec2Model ----
(***************************************************************************)
(* Model of the voice-gen MCP server: the generate_voice tool handler      *)
(* (server.py), the speech client (voice_generator.py), the configuration  *)
(* loader (config.py) and the authentication middleware (auth.py).         *)
(*                                                                         *)
(* Representation of Python values:                                        *)
(*   - None is the record None; objects are records with a "type" field.   *)
(*   - text and hex audio are sequences of one-character strings, so that  *)
(*     str.strip and binascii.unhexlify are computed character by          *)
(*     character.  The character NonAscii stands for any non-ASCII code    *)
(*     point (for example U+00E9).                                         *)
(*   - bytes are sequences of integers in 0..255.                          *)
(*   - URLs, keys and configuration values are strings, joined with \o as  *)
(*     the f-strings of the code join them.                                *)
(*   - messages returned to the caller are sequences of string segments,   *)
(*     one per literal part or interpolated value of the f-string.         *)
(*   - header values and secrets are sequences of tokens; the token        *)
(*     Bearer is the 7 characters "Bearer ", every other token is one      *)
(*     character.                                                          *)
(***************************************************************************)
EXTENDS Integers, Sequences, FiniteSets, TLC

None == [type |-> "NoneType"]

(***************************************************************************)
(* Bounds of the model.                                                    *)
(***************************************************************************)
MaxTextLen == 1
MaxHexLen == 3
MaxBytesLen == 2

\* Two invocations of the tool, so that every pair of their steps interleaves.
Invocations == {1, 2}

(***************************************************************************)
(* str.strip() and truthiness of str (server.py:156, voice_generator:49).  *)
(***************************************************************************)
Whitespace == {" ", "\n"}
TextChars == {" ", "a"}

RECURSIVE SeqsUpTo(_, _)
SeqsUpTo(S, n) ==
    IF n = 0 THEN {<<>>}
    ELSE LET shorter == SeqsUpTo(S, n - 1)
         IN  shorter \cup {Append(s, c) : s \in {t \in shorter : Len(t) = n - 1}, c \in S}

Texts == SeqsUpTo(TextChars, MaxTextLen)

RECURSIVE LStrip(_)
LStrip(s) == IF s # <<>> /\ Head(s) \in Whitespace THEN LStrip(Tail(s)) ELSE s

RECURSIVE RStrip(_)
RStrip(s) ==
    IF s # <<>> /\ s[Len(s)] \in Whitespace THEN RStrip(SubSeq(s, 1, Len(s) - 1)) ELSE s

Strip(s) == RStrip(LStrip(s))

Truthy(s) == s # <<>>

(***************************************************************************)
(* bytes.hex() and binascii.unhexlify (voice_generator.py:76).             *)
(***************************************************************************)
HexDigitChars == <<"0", "1", "2", "3", "4", "5", "6", "7",
                   "8", "9", "a", "b", "c", "d", "e", "f">>
UpperHexChars == <<"A", "B", "C", "D", "E", "F">>
NonAscii == "U+00E9"

IsHexChar(c) ==
    \/ \E k \in 1..Len(HexDigitChars) : HexDigitChars[k] = c
    \/ \E k \in 1..Len(UpperHexChars) : UpperHexChars[k] = c

HexVal(c) ==
    IF \E k \in 1..Len(HexDigitChars) : HexDigitChars[k] = c
    THEN (CHOOSE k \in 1..Len(HexDigitChars) : HexDigitChars[k] = c) - 1
    ELSE (CHOOSE k \in 1..Len(UpperHexChars) : UpperHexChars[k] = c) + 9

RECURSIVE HexPairs(_)
HexPairs(h) ==
    IF h = <<>> THEN <<>>
    ELSE <<HexVal(h[1]) * 16 + HexVal(h[2])>> \o HexPairs(SubSeq(h, 3, Len(h)))

\* binascii.unhexlify(hexstr): the argument converter rejects a str holding a
\* non-ASCII character with ValueError before a2b_hex looks at the digits;
\* a2b_hex raises binascii.Error for an odd length and for a non-hex digit.
Unhexlify(h) ==
    IF \E k \in 1..Len(h) : h[k] = NonAscii
    THEN [ok |-> FALSE, exc |-> "ValueError",
          msg |-> <<"string argument should contain only ASCII characters">>]
    ELSE IF Len(h) % 2 = 1
    THEN [ok |-> FALSE, exc |-> "binascii.Error", msg |-> <<"Odd-length string">>]
    ELSE IF \E k \in 1..Len(h) : ~IsHexChar(h[k])
    THEN [ok |-> FALSE, exc |-> "binascii.Error", msg |-> <<"Non-hexadecimal digit found">>]
    ELSE [ok |-> TRUE, bytes |-> HexPairs(h)]

RECURSIVE Hexlify(_)
Hexlify(b) ==
    IF b = <<>> THEN <<>>
    ELSE <<HexDigitChars[(b[1] \div 16) + 1], HexDigitChars[(b[1] % 16) + 1]>>
         \o Hexlify(Tail(b))

(***************************************************************************)
(* Python dicts are functions over the keys they hold.                     *)
(***************************************************************************)
EmptyDict == [k \in {} |-> None]

DictGet(d, k, default) == IF k \in DOMAIN d THEN d[k] ELSE default

(***************************************************************************)
(* config.py: load_config.  The environment is a dict of the variables     *)
(* that are set; os.getenv(var, default) is DictGet.                       *)
(***************************************************************************)
RequiredVars == {"VOICE_GEN_API_GROUP_ID", "VOICE_GEN_API_KEY", "S3_BUCKET_NAME",
                 "S3_REGION", "S3_ACCESS_KEY_ID", "S3_SECRET_ACCESS_KEY"}

BaseEnv ==
    [v \in RequiredVars |->
        CASE v = "VOICE_GEN_API_GROUP_ID" -> "group-1"
          [] v = "VOICE_GEN_API_KEY" -> "minimax-key"
          [] v = "S3_BUCKET_NAME" -> "bkt"
          [] v = "S3_REGION" -> "eu-west-1"
          [] v = "S3_ACCESS_KEY_ID" -> "AKIA"
          [] v = "S3_SECRET_ACCESS_KEY" -> "s3-secret"]

\* The environments of the model: the required variables alone, the same with
\* S3_PREFIX, S3_PUBLIC_URL_BASE and the default model and voice set, and one
\* that lacks a required variable.
Envs ==
    {BaseEnv,
     BaseEnv @@ ("S3_PREFIX" :> "audio/") @@ ("S3_PUBLIC_URL_BASE" :> "https://example.com")
             @@ ("VOICE_GEN_DEFAULT_MODEL" :> "speech-01-turbo")
             @@ ("VOICE_GEN_DEFAULT_VOICE_ID" :> "voice_b"),
     [v \in RequiredVars \ {"S3_BUCKET_NAME"} |-> BaseEnv[v]]}

MissingVars(e) == {v \in RequiredVars : DictGet(e, v, "") = ""}

load_config(e) ==
    IF MissingVars(e) # {}
    THEN [ok |-> FALSE, exc |-> "ValueError",
          msg |-> <<"Missing required environment variables: ">>]
    ELSE [ok |-> TRUE,
          config |->
            [api |-> [base_url |-> DictGet(e, "VOICE_GEN_API_BASE_URL",
                                           "https://api.minimax.chat/v1/t2a_v2"),
                      group_id |-> e["VOICE_GEN_API_GROUP_ID"],
                      api_key |-> e["VOICE_GEN_API_KEY"]],
             defaults |-> [model |-> DictGet(e, "VOICE_GEN_DEFAULT_MODEL",
                                             "speech-2.5-hd-preview"),
                           voice_id |-> DictGet(e, "VOICE_GEN_DEFAULT_VOICE_ID",
                                                "mylxsw_voice_1")],
             audio_settings |-> [sample_rate |-> 32000, bitrate |-> 128000,
                                 format |-> DictGet(e, "VOICE_GEN_AUDIO_FORMAT", "mp3")],
             s3 |-> [bucket_name |-> e["S3_BUCKET_NAME"],
                     region |-> e["S3_REGION"],
                     access_key_id |-> e["S3_ACCESS_KEY_ID"],
                     secret_access_key |-> e["S3_SECRET_ACCESS_KEY"],
                     endpoint_url |-> DictGet(e, "S3_ENDPOINT", "https://s3.amazonaws.com"),
                     prefix |-> DictGet(e, "S3_PREFIX", "voice-gen/"),
                     public_url_base |-> DictGet(e, "S3_PUBLIC_URL_BASE", "")]]]

(***************************************************************************)
(* auth.py: AuthMiddleware.                                                *)
(*                                                                         *)
(* A request context is None or a record                                   *)
(*   [type |-> "Context", request |-> None or [headers |-> dict],          *)
(*    metadata |-> dict]                                                   *)
(* where request = None stands for a transport without an HTTP request     *)
(* (request_context.request is None, or reading it raises ValueError or    *)
(* AttributeError, which _extract_api_key catches).                        *)
(***************************************************************************)
Bearer == "Bearer "

\* AuthMiddleware.__init__: the 'auth' section with its defaults; raises
\* ValueError when enabled without an API key.
AuthMiddleware(config) ==
    LET auth_config == DictGet(config, "auth", EmptyDict)
        enabled == DictGet(auth_config, "enabled", FALSE)
        api_key == DictGet(auth_config, "api_key", <<>>)
    IN  IF enabled /\ api_key = <<>>
        THEN [ok |-> FALSE, exc |-> "ValueError",
              msg |-> <<"Authentication is enabled but no API key is configured">>]
        ELSE [ok |-> TRUE,
              obj |-> [type |-> "AuthMiddleware",
                       enabled |-> enabled,
                       api_key |-> api_key,
                       header_name |-> DictGet(auth_config, "header_name", "X-API-Key")]]

\* str.startswith('Bearer ') and api_key[7:] on token sequences.
StartsWithBearer(v) == v # <<>> /\ Head(v) = Bearer

StripBearer(v) == IF StartsWithBearer(v) THEN Tail(v) ELSE v

\* The loop over [self.header_name, 'Authorization', 'X-API-Key']: the value
\* of the first of them that the request carries, with a leading "Bearer "
\* removed whichever header it came from.
HeaderOrder(mw) == <<mw.header_name, "Authorization", "X-API-Key">>

FirstHeader(mw, headers) ==
    LET order == HeaderOrder(mw)
        hits == {k \in 1..Len(order) : order[k] \in DOMAIN headers}
    IN  IF hits = {} THEN None
        ELSE LET k == CHOOSE j \in hits : \A l \in hits : j <= l
             IN  [type |-> "str", name |-> order[k], value |-> headers[order[k]]]

\* _extract_api_key: [found |-> TRUE, value |-> credential] or [found |-> FALSE].
extract_api_key(mw, context) ==
    IF context = None THEN [found |-> FALSE]
    ELSE LET hit == IF context.request = None THEN None
                    ELSE FirstHeader(mw, context.request.headers)
         IN  IF hit # None
             THEN [found |-> TRUE, value |-> StripBearer(hit.value)]
             ELSE IF "api_key" \in DOMAIN context.metadata
             THEN [found |-> TRUE, value |-> context.metadata["api_key"]]
             ELSE [found |-> FALSE]

\* is_authenticated with the missing-context test ahead of the enabled test.
is_authenticated_context_first(mw, context) ==
    IF context = None THEN FALSE
    ELSE IF ~mw.enabled THEN TRUE
    ELSE LET k == extract_api_key(mw, context)
         IN  k.found /\ k.value # <<>> /\ k.value = mw.api_key

is_authenticated(mw, context) ==
    IF ~mw.enabled THEN TRUE
    ELSE IF context = None THEN FALSE
    ELSE LET k == extract_api_key(mw, context)
         IN  IF ~k.found \/ k.value = <<>> THEN FALSE
             ELSE IF k.value # mw.api_key THEN FALSE
             ELSE TRUE

\* create_auth_middleware: None when the section is missing or disabled.
create_auth_middleware(config) ==
    LET auth_config == DictGet(config, "auth", EmptyDict)
    IN  IF ~DictGet(auth_config, "enabled", FALSE)
        THEN [ok |-> TRUE, obj |-> None]
        ELSE AuthMiddleware(config)

\* auth_required(middleware)(func): TRUE when func is returned wrapped by
\* middleware.require_auth, FALSE when func is returned as it is.
auth_required(middleware) ==
    IF middleware = None \/ ~middleware.enabled THEN FALSE ELSE TRUE

AuthRequiredMsg == <<"Authentication required. Please provide a valid API key.">>

\* The wrapper of require_auth with every call let through to func.
require_auth_log_only(mw, context) == "call"

\* The wrapper of require_auth (lines 138-149) for the context it found among
\* the arguments: "raise" AuthenticationError, or "call" the wrapped function.
require_auth(mw, context) ==
    IF ~is_authenticated(mw, context) THEN "raise" ELSE "call"

(***************************************************************************)
(* voice_generator.py: VoiceGenerator.                                     *)
(*                                                                         *)
(* What requests.post does is an input of the model: a transport failure,  *)
(* or a response with a status and a body.  A JSON value is                *)
(*   [t |-> "null"], [t |-> "str", v |-> characters] or                    *)
(*   [t |-> "dict", v |-> dict of JSON values].                            *)
(***************************************************************************)
JNull == [t |-> "null"]
JStr(h) == [t |-> "str", v |-> h]
JDict(d) == [t |-> "dict", v |-> d]

HexChars == {"6", "f", "A", "g", NonAscii}
HexStrings == SeqsUpTo(HexChars, MaxHexLen)

\* The audio strings the speech API answers with in the server's runs: "hello"
\* in hex, a one-byte audio, an odd-length string, a string with a non-hex
\* ASCII character and one with a non-ASCII character.
HelloHex == <<"6", "8", "6", "5", "6", "c", "6", "c", "6", "f">>
ResponseHex == {HelloHex, <<"f", "A">>, <<"6">>, <<"6", "g">>, <<"6", NonAscii>>}

AudioBody(a) == JDict("data" :> JDict("audio" :> a))

Bodies ==
    {AudioBody(JStr(h)) : h \in ResponseHex}
    \cup {AudioBody(JNull),
          JDict(EmptyDict),
          JDict("data" :> JNull),
          JDict("data" :> JDict(EmptyDict))}

Responses ==
    {[kind |-> "connection_error"]}
    \cup {[kind |-> "response", status |-> 500, is_json |-> FALSE]}
    \cup {[kind |-> "response", status |-> 200, is_json |-> FALSE]}
    \cup {[kind |-> "response", status |-> 200, is_json |-> TRUE, json |-> b] : b \in Bodies}

VoiceGenerator(config) ==
    [type |-> "VoiceGenerator",
     base_url |-> config.api.base_url,
     group_id |-> config.api.group_id,
     api_key |-> config.api.api_key,
     audio_settings |-> config.audio_settings,
     defaults |-> config.defaults]

\* Lines 34 and 53-54: a parameter that was not passed is None, and
\* `model or self.defaults['model']` takes the default for None and for ''.
\* kwargs is the dict of the keyword arguments passed besides text.
OrDefault(kwargs, k, default) ==
    IF k \notin DOMAIN kwargs THEN default
    ELSE IF kwargs[k] = "" THEN default
    ELSE kwargs[k]

\* _create_payload(text, model, voice_id).
create_payload(vg, text, model, voice_id) ==
    [model |-> model,
     text |-> text,
     timber_weights |-> <<[voice_id |-> voice_id, weight |-> 1]>>,
     voice_setting |-> [voice_id |-> "", speed |-> 1, pitch |-> 0, vol |-> 1,
                        latex_read |-> FALSE],
     audio_setting |-> vg.audio_settings,
     language_boost |-> "auto"]

\* Lines 53-62: the payload of the request generate_voice posts.
VG_payload(vg, text, kwargs) ==
    create_payload(vg, text,
                   OrDefault(kwargs, "model", vg.defaults.model),
                   OrDefault(kwargs, "voice_id", vg.defaults.voice_id))

VGError(msg, posts) == [ok |-> FALSE, exc |-> "VoiceGeneratorError", msg |-> msg, posts |-> posts]

\* Lines 73-78 on a parsed body: "data" in response_data and "audio" in
\* response_data["data"], then unhexlify.  `in` on None and unhexlify of a
\* value that is no str raise TypeError; of the exceptions raised here only
\* binascii.Error is turned into VoiceGeneratorError (line 84).
ExtractAudio(response_data) ==
    IF "data" \notin DOMAIN response_data.v
    THEN VGError(<<"Unexpected API response format: ">>, 1)
    ELSE LET data == response_data.v["data"]
         IN  IF data.t = "null"
             THEN [ok |-> FALSE, exc |-> "TypeError", posts |-> 1,
                   msg |-> <<"argument of type 'NoneType' is not iterable">>]
             ELSE IF "audio" \notin DOMAIN data.v
             THEN VGError(<<"Unexpected API response format: ">>, 1)
             ELSE LET hex_audio == data.v["audio"]
                  IN  IF hex_audio.t # "str"
                      THEN [ok |-> FALSE, exc |-> "TypeError", posts |-> 1,
                            msg |-> <<"argument should be bytes, buffer or ASCII string, not 'NoneType'">>]
                      ELSE LET r == Unhexlify(hex_audio.v)
                           IN  IF r.ok THEN [ok |-> TRUE, bytes |-> r.bytes, posts |-> 1]
                               ELSE IF r.exc = "binascii.Error"
                               THEN VGError(<<"Error decoding audio data: ">> \o r.msg, 1)
                               ELSE [ok |-> FALSE, exc |-> r.exc, posts |-> 1, msg |-> r.msg]

\* generate_voice posting a second time when the first request failed.
VG_generate_voice_retry(vg, text, resp) ==
    IF ~Truthy(text) THEN VGError(<<"Text cannot be empty">>, 0)
    ELSE IF resp.kind = "connection_error"
    THEN VGError(<<"Error making API request: ">>, 2)
    ELSE IF resp.status >= 400
    THEN VGError(<<"Error making API request: ">>, 2)
    ELSE IF ~resp.is_json
    THEN VGError(<<"Error parsing API response: ">>, 1)
    ELSE ExtractAudio(resp.json)

\* VoiceGenerator.generate_voice(text) against the response `resp`; posts is
\* the number of requests.post calls made.  A body that is no JSON makes
\* response.json() raise a JSONDecodeError, caught at line 80 or line 82.
VG_generate_voice(vg, text, resp) ==
    IF ~Truthy(text) THEN VGError(<<"Text cannot be empty">>, 0)
    ELSE IF resp.kind = "connection_error"
    THEN VGError(<<"Error making API request: ">>, 1)
    ELSE IF resp.status >= 400
    THEN VGError(<<"Error making API request: ">>, 1)
    ELSE IF ~resp.is_json
    THEN VGError(<<"Error parsing API response: ">>, 1)
    ELSE ExtractAudio(resp.json)

(***************************************************************************)
(* server.py: upload_to_s3.                                                *)
(*                                                                         *)
(* datetime.now() is a record [y, m, d]: the time of day, which             *)
(* timedelta(days=30) carries over unchanged, is left out.  uuid.uuid4()   *)
(* is the sequence of the five groups of its string form 8-4-4-4-12, so    *)
(* that str(uuid)[:8] is the first group.  What put_object does is an      *)
(* input of the model.                                                     *)
(***************************************************************************)
Dates == {[y |-> 2024, m |-> 3, d |-> 5],
          [y |-> 1999, m |-> 12, d |-> 25]}

Uuids == {<<"abcd1234", "5678", "4abc", "8def", "0123456789ab">>,
          <<"00ff00ff", "0000", "4000", "8000", "000000000000">>}

\* put_object returns, or raises ClientError (the service answered with an
\* error), NoCredentialsError, or another BotoCoreError such as
\* EndpointConnectionError (the service was not reached).
PutOutcomes == {"ok", "ClientError", "NoCredentialsError", "EndpointConnectionError"}

\* str(e) of the ClientError and of the EndpointConnectionError of the model.
ClientErrorDetail ==
    "An error occurred (AccessDenied) when calling the PutObject operation: Access Denied"
EndpointErrorDetail == "Could not connect to the endpoint URL"

\* Lines 120-127 with the message of line 121 for every failure.
UploadErrorMsg_OneMessage(outcome) == <<"S3 upload error: ", ClientErrorDetail>>

\* Lines 120-127: the message of the exception that leaves upload_to_s3.  An
\* exception that is neither ClientError nor NoCredentialsError is not
\* caught there and leaves with its own message.
UploadErrorMsg(outcome) ==
    CASE outcome = "ClientError" -> <<"S3 upload error: ", ClientErrorDetail>>
      [] outcome = "NoCredentialsError" -> <<"S3 credentials not found">>
      [] OTHER -> <<EndpointErrorDetail>>

\* The month or day as "%-m" or "%-d" would print it, without the zero.
NoPad2(n) == ToString(n)

\* strftime("%m"), strftime("%d"): two digits, zero-padded; strftime("%Y").
ZeroPad2(n) == IF n < 10 THEN "0" \o ToString(n) ELSE ToString(n)

StrfY(now) == ToString(now.y)
StrfM(now) == ZeroPad2(now.m)
StrfD(now) == ZeroPad2(now.d)

UniqueId(uuid) == uuid[1]

\* datetime + timedelta(days=n), one calendar day at a time.
IsLeapYear(y) == (y % 4 = 0 /\ y % 100 # 0) \/ y % 400 = 0

DaysInMonth(y, m) ==
    IF m = 2 THEN (IF IsLeapYear(y) THEN 29 ELSE 28)
    ELSE IF m \in {4, 6, 9, 11} THEN 30
    ELSE 31

NextDay(t) ==
    IF t.d < DaysInMonth(t.y, t.m) THEN [t EXCEPT !.d = @ + 1]
    ELSE IF t.m < 12 THEN [t EXCEPT !.m = @ + 1, !.d = 1]
    ELSE [y |-> t.y + 1, m |-> 1, d |-> 1]

\* The same day of the next calendar month, whatever n.
AddMonth(t, n) == IF t.m < 12 THEN [t EXCEPT !.m = @ + 1] ELSE [t EXCEPT !.y = @ + 1, !.m = 1]

RECURSIVE AddDays(_, _)
AddDays(t, n) == IF n = 0 THEN t ELSE AddDays(NextDay(t), n - 1)

\* datetime.isoformat(), the date part.
IsoFormat(t) == StrfY(t) \o "-" \o StrfM(t) \o "-" \o StrfD(t)

S3Key(prefix, now, unique_id, filename) ==
    prefix \o StrfY(now) \o "/" \o StrfM(now) \o "/" \o StrfD(now)
           \o "_" \o unique_id \o "_" \o filename

\* s3_config.get('public_url_base', default): the default is used only when
\* the key is missing from the dict.
PublicUrlBase(s3_config) ==
    DictGet(s3_config, "public_url_base",
            "https://" \o s3_config.bucket_name \o ".s3." \o s3_config.region
                       \o ".amazonaws.com")

PublicUrl(public_url_base, s3_key) == public_url_base \o "/" \o s3_key

\* upload_to_s3(audio_data, filename) with the clock, the uuid and the
\* outcome of put_object given: the put_object call made, and the URL
\* returned or the exception raised.
upload_to_s3(cfg, audio_data, filename, now, uuid, outcome) ==
    LET s3_config == DictGet(cfg, "s3", EmptyDict)
        bucket_name == s3_config.bucket_name
        prefix == DictGet(s3_config, "prefix", "voice-gen/")
        public_url_base == PublicUrlBase(s3_config)
        unique_id == UniqueId(uuid)
        s3_key == S3Key(prefix, now, unique_id, filename)
        expiration_date == AddDays(now, 30)
        put == [Bucket |-> bucket_name, Key |-> s3_key, Body |-> audio_data,
                ContentType |-> "audio/mpeg",
                Metadata |-> ("expiration-date" :> IsoFormat(expiration_date))
                             @@ ("created-date" :> IsoFormat(now))
                             @@ ("unique-id" :> unique_id),
                Expires |-> expiration_date,
                now |-> now, unique_id |-> unique_id]
    IN  CASE outcome = "ok" ->
                [ok |-> TRUE, put |-> put, url |-> PublicUrl(public_url_base, s3_key)]
          [] outcome \in {"ClientError", "NoCredentialsError"} ->
                [ok |-> FALSE, put |-> put, exc |-> "Exception",
                 msg |-> UploadErrorMsg(outcome)]
          [] OTHER ->
                [ok |-> FALSE, put |-> put, exc |-> outcome,
                 msg |-> UploadErrorMsg(outcome)]

(***************************************************************************)
(* server.py: the module's state.                                          *)
(***************************************************************************)
VARIABLES
    env,              \* the process environment read by load_config
    loaderAuth,       \* the 'auth' section of the dict load_config returns, or None
    proc,             \* "starting" (run as __main__), "imported", "serving", "exited"
    exit_status,      \* <<>> while the process lives, <<n>> after sys.exit(n)
    config,           \* module global config
    voice_generator,  \* module global voice_generator
    s3_client,        \* module global s3_client
    auth_middleware,  \* module global auth_middleware
    wrapper,          \* the middleware whose require_auth wraps generate_voice, or None
    clock,            \* what datetime.now() returns
    running,          \* the invocation the event loop is executing, 0 when it is free
    inv,              \* the invocations: position, arguments, locals, outcome
    unitIn,           \* the arguments of a direct call of one function, or None
    unitOut           \* what that call returned, None before it

vars == <<env, loaderAuth, proc, exit_status, config, voice_generator, s3_client, auth_middleware,
          wrapper, clock, running, inv, unitIn, unitOut>>

Bytes(b) == [type |-> "bytes", v |-> b]

\* The 'auth' sections a configuration dict can carry; config.py builds none.
Secret == <<"s">>
AuthSections ==
    {[enabled |-> TRUE, api_key |-> Secret],
     [enabled |-> TRUE],
     [enabled |-> FALSE]}

Context(request, metadata) == [type |-> "Context", request |-> request, metadata |-> metadata]
Request(headers) == [type |-> "Request", headers |-> headers]

\* The ctx arguments of the server's runs: no ctx and a context that carries
\* no credential; where a wrapper is installed, which alone reads the
\* credential, also a context with X-API-Key: <secret> and one with a wrong key.
CtxNoCredential == Context(Request(EmptyDict), EmptyDict)
CtxWithSecret == Context(Request("X-API-Key" :> Secret), EmptyDict)
CtxWrongKey == Context(Request("X-API-Key" :> (Secret \o <<"x">>)), EmptyDict)
ServerContexts ==
    IF wrapper = None THEN {None, CtxNoCredential}
    ELSE {None, CtxNoCredential, CtxWithSecret, CtxWrongKey}

\* The text arguments of the calls of the tool: the empty string, a
\* whitespace-only string and a string with a letter, the three cases of
\* text.strip() at line 156.  With two invocations in flight the state space
\* grows with the square of the number of texts, so they are listed here;
\* the texts up to MaxTextLen go to the direct calls of the speech client.
ToolTexts == {<<>>, <<" ">>, <<"a">>}

\* The keyword arguments of a call besides text and ctx: none, or both model
\* and voice_id.
ToolKwargs == {EmptyDict, ("model" :> "speech-02-hd") @@ ("voice_id" :> "voice_c")}

\* Lines 134-135: the values the parameters take when the caller omits them.
ToolDefaults == [model |-> "speech-2.5-hd-preview", voice_id |-> "mylxsw_voice_1"]

BindToolArgs(kwargs) ==
    [model |-> DictGet(kwargs, "model", ToolDefaults.model),
     voice_id |-> DictGet(kwargs, "voice_id", ToolDefaults.voice_id)]

IdleInvocation ==
    [pc |-> "idle", text |-> <<>>, kwargs |-> EmptyDict, ctx |-> None, resp |-> None,
     payload |-> None, audio_data |-> None, put |-> None, put_outcome |-> "none",
     public_url |-> "",
     entered |-> FALSE, calls |-> <<>>, inits |-> 0, vg |-> None, s3 |-> None,
     outcome |-> "none", result |-> <<>>]

\* The dict initialize_services gets from load_config().
LoadedConfig ==
    LET lc == load_config(env)
    IN  IF lc.ok /\ loaderAuth # None
        THEN [lc EXCEPT !.config = lc.config @@ ("auth" :> loaderAuth)]
        ELSE lc

\* initialize_services(): the globals it leaves and whether it raised.  The
\* globals are assigned one by one, so a failure at a later step leaves the
\* earlier ones assigned.  boto_ok: whether boto3.client returns a client.
initialize_services(boto_ok) ==
    LET lc == LoadedConfig
        old == [config |-> config, voice_generator |-> voice_generator,
                s3_client |-> s3_client, auth_middleware |-> auth_middleware]
    IN  IF ~lc.ok
        THEN [raised |-> TRUE, msg |-> lc.msg, g |-> old]
        ELSE LET step2 == [old EXCEPT !.config = lc.config,
                                      !.voice_generator = VoiceGenerator(lc.config)]
             IN  IF ~boto_ok
                 THEN [raised |-> TRUE, msg |-> <<"Invalid endpoint: ">>, g |-> step2]
                 ELSE LET step3 == [step2 EXCEPT !.s3_client =
                                        [type |-> "S3Client",
                                         region_name |-> lc.config.s3.region,
                                         endpoint_url |-> lc.config.s3.endpoint_url]]
                          am == create_auth_middleware(lc.config)
                      IN  IF ~am.ok
                          THEN [raised |-> TRUE, msg |-> am.msg, g |-> step3]
                          ELSE [raised |-> FALSE, msg |-> <<>>,
                                g |-> [step3 EXCEPT !.auth_middleware = am.obj]]

SetGlobals(g) ==
    /\ config' = g.config
    /\ voice_generator' = g.voice_generator
    /\ s3_client' = g.s3_client
    /\ auth_middleware' = g.auth_middleware

\* Module load (lines 40-46 and the decorators of line 130-131): the globals
\* are None, and auth_required is applied to the middleware of that moment.
ModuleLoaded ==
    /\ config = None
    /\ voice_generator = None
    /\ s3_client = None
    /\ auth_middleware = None
    /\ running = 0
    /\ inv = [i \in Invocations |-> IdleInvocation]
    /\ clock \in Dates
    /\ env \in Envs
    /\ proc \in {"starting", "imported"}
    /\ exit_status = <<>>
    /\ unitIn = None
    /\ unitOut = None

Init ==
    /\ ModuleLoaded
    /\ loaderAuth = None
    /\ wrapper = (IF auth_required(auth_middleware) THEN auth_middleware ELSE None)

\* __main__ with `except Exception` logging the failure and going on to
\* mcp.run instead of leaving.
Main_ServeOnFailure ==
    /\ proc = "starting"
    /\ \E boto_ok \in BOOLEAN : SetGlobals(initialize_services(boto_ok).g)
    /\ proc' = "serving"
    /\ UNCHANGED <<env, loaderAuth, exit_status, wrapper, clock, running, inv,
                   unitIn, unitOut>>

\* __main__ (lines 201-227): initialize and serve (mcp.run), or sys.exit(1).
Main ==
    /\ proc = "starting"
    /\ \E boto_ok \in BOOLEAN :
          LET r == initialize_services(boto_ok)
          IN  /\ SetGlobals(r.g)
              /\ proc' = IF r.raised THEN "exited" ELSE "serving"
              /\ exit_status' = IF r.raised THEN <<1>> ELSE <<>>
    /\ UNCHANGED <<env, loaderAuth, wrapper, clock, running, inv, unitIn, unitOut>>

(***************************************************************************)
(* server.py: generate_voice, one action per stretch of code between two   *)
(* points where the coroutine can be suspended (the awaited ctx calls).    *)
(* The event loop runs one coroutine at a time: an invocation moves only   *)
(* when the loop is free or is executing it, and it gives the loop up only *)
(* at an await or when it ends.                                            *)
(***************************************************************************)
Scheduled(i) == running \in {0, i}

\* After a stretch that ends in `if ctx: await ctx...`.
AfterAwait(i, ctx) == IF ctx # None THEN 0 ELSE i

Finish(r, outcome, result) ==
    [r EXCEPT !.pc = "done", !.outcome = outcome, !.result = result]

ValidationErrorMsg == <<"Error: Text cannot be empty">>

\* The length of the hex string the bytes came from.
HexDigitCount(audio_data) == 2 * Len(audio_data.v)

\* Line 180: file_size = len(audio_data).
FileSize(audio_data) == Len(audio_data.v)

SuccessMsg(public_url, file_size) ==
    <<"Successfully generated voice audio and uploaded to S3.\nURL: ", public_url,
      "\nSize: ", ToString(file_size), " bytes">>

\* The except clauses of lines 188-199.
ErrorMsg(exc, msg) ==
    CASE exc = "AuthenticationError" -> <<"Authentication error: ">> \o msg
      [] exc = "VoiceGeneratorError" -> <<"Voice generation error: ">> \o msg
      [] OTHER -> <<"Unexpected error: ">> \o msg

\* The gate looked up anew at every call, from the value auth_middleware has
\* at the call.
GateOfCall_LateBound ==
    IF auth_required(auth_middleware) THEN auth_middleware ELSE None

\* What guards a call of the name generate_voice: the decorator of line 130
\* ran once, at module load, and the name has been bound to its result since;
\* the middleware of that moment, or None when func was returned as it is.
GateOfCall == wrapper

\* A call of the name generate_voice: the wrapper of require_auth when one was
\* installed (auth.py:121-146), then lines 149-151 of the function.
Call(i) ==
    /\ proc \in {"serving", "imported"}
    /\ running = 0
    /\ inv[i].pc = "idle"
    /\ \A j \in Invocations : j < i => inv[j].pc # "idle"
    /\ \E text \in ToolTexts, kwargs \in ToolKwargs, ctx \in ServerContexts :
          LET called == [inv[i] EXCEPT !.text = text, !.kwargs = kwargs, !.ctx = ctx]
          IN  IF GateOfCall # None /\ require_auth(GateOfCall, ctx) = "raise"
              THEN IF ctx # None
                   THEN /\ inv' = [inv EXCEPT ![i] = [called EXCEPT !.pc = "W146"]]
                        /\ running' = 0
                   ELSE /\ inv' = [inv EXCEPT ![i] = Finish(called, "raised", AuthRequiredMsg)]
                        /\ running' = 0
              ELSE /\ inv' = [inv EXCEPT ![i] = [called EXCEPT !.entered = TRUE, !.pc = "L153"]]
                   /\ running' = AfterAwait(i, ctx)
    /\ UNCHANGED <<env, loaderAuth, proc, exit_status, config, voice_generator, s3_client,
                   auth_middleware, wrapper, clock, unitIn, unitOut>>

\* auth.py:146, after the awaited context.error: raise AuthenticationError.
WrapperRaise(i) ==
    /\ inv[i].pc = "W146"
    /\ Scheduled(i)
    /\ inv' = [inv EXCEPT ![i] = Finish(@, "raised", AuthRequiredMsg)]
    /\ running' = 0
    /\ UNCHANGED <<env, loaderAuth, proc, exit_status, config, voice_generator, s3_client,
                   auth_middleware, wrapper, clock, unitIn, unitOut>>

\* initialize_services called by every invocation.
NeedsInit_Always == TRUE

\* Line 153: `not voice_generator or not s3_client`.
NeedsInit == voice_generator = None \/ s3_client = None

\* Lines 153-154.
EnsureServices(i) ==
    /\ inv[i].pc = "L153"
    /\ Scheduled(i)
    /\ IF NeedsInit
       THEN \E boto_ok \in BOOLEAN :
               LET r == initialize_services(boto_ok)
                   ran == [inv[i] EXCEPT !.inits = @ + 1]
               IN  /\ SetGlobals(r.g)
                   /\ IF r.raised
                      THEN /\ inv' = [inv EXCEPT ![i] =
                                        Finish(ran, "returned", ErrorMsg("Exception", r.msg))]
                           /\ running' = 0
                      ELSE /\ inv' = [inv EXCEPT ![i] = [ran EXCEPT !.pc = "L156"]]
                           /\ running' = i
       ELSE /\ inv' = [inv EXCEPT ![i].pc = "L156"]
            /\ running' = i
            /\ UNCHANGED <<config, voice_generator, s3_client, auth_middleware>>
    /\ UNCHANGED <<env, loaderAuth, proc, exit_status, wrapper, clock, unitIn, unitOut>>

\* Lines 156-159.
ValidateText(i) ==
    /\ inv[i].pc = "L156"
    /\ Scheduled(i)
    /\ IF ~Truthy(Strip(inv[i].text))
       THEN IF inv[i].ctx # None
            THEN /\ inv' = [inv EXCEPT ![i].pc = "L160", ![i].result = ValidationErrorMsg]
                 /\ running' = 0
            ELSE /\ inv' = [inv EXCEPT ![i] = Finish(@, "returned", ValidationErrorMsg)]
                 /\ running' = 0
       ELSE /\ inv' = [inv EXCEPT ![i].pc = "L165"]
            /\ running' = i
    /\ UNCHANGED <<env, loaderAuth, proc, exit_status, config, voice_generator, s3_client,
                   auth_middleware, wrapper, clock, unitIn, unitOut>>

\* Line 160, after the awaited ctx.error.
ReturnValidationError(i) ==
    /\ inv[i].pc = "L160"
    /\ Scheduled(i)
    /\ inv' = [inv EXCEPT ![i] = Finish(@, "returned", @.result)]
    /\ running' = 0
    /\ UNCHANGED <<env, loaderAuth, proc, exit_status, config, voice_generator, s3_client,
                   auth_middleware, wrapper, clock, unitIn, unitOut>>

\* Lines 162-172, with the except clauses a failure ends in.
Synthesize(i) ==
    /\ inv[i].pc = "L165"
    /\ Scheduled(i)
    /\ \E resp \in Responses :
          LET args == BindToolArgs(inv[i].kwargs)
              passed == ("model" :> args.model) @@ ("voice_id" :> args.voice_id)
              r == VG_generate_voice(voice_generator, inv[i].text, resp)
              posted == [inv[i] EXCEPT
                            !.vg = voice_generator,
                            !.calls = @ \o [k \in 1..r.posts |-> "post"],
                            !.payload = IF r.posts > 0
                                        THEN VG_payload(voice_generator, inv[i].text, passed)
                                        ELSE @,
                            !.resp = IF r.posts > 0 THEN resp ELSE @]
          IN  IF r.ok
              THEN /\ inv' = [inv EXCEPT ![i] =
                                [posted EXCEPT !.audio_data = Bytes(r.bytes), !.pc = "L178"]]
                   /\ running' = AfterAwait(i, inv[i].ctx)
              ELSE /\ inv' = [inv EXCEPT ![i] =
                                Finish(posted, "returned", ErrorMsg(r.exc, r.msg))]
                   /\ running' = 0
    /\ UNCHANGED <<env, loaderAuth, proc, exit_status, config, voice_generator, s3_client,
                   auth_middleware, wrapper, clock, unitIn, unitOut>>

\* Lines 175-184, with the except clause a failure ends in.
Upload(i) ==
    /\ inv[i].pc = "L178"
    /\ Scheduled(i)
    /\ \E uuid \in Uuids, outcome \in PutOutcomes :
          LET r == upload_to_s3(config, inv[i].audio_data.v, "voice.mp3", clock, uuid, outcome)
              put == [inv[i] EXCEPT !.calls = Append(@, "put"), !.put = r.put,
                                    !.s3 = s3_client,
                                    !.put_outcome = outcome]
          IN  IF r.ok
              THEN /\ inv' = [inv EXCEPT ![i] =
                                [put EXCEPT !.public_url = r.url, !.pc = "L186"]]
                   /\ running' = AfterAwait(i, inv[i].ctx)
              ELSE /\ inv' = [inv EXCEPT ![i] =
                                Finish(put, "returned", ErrorMsg(r.exc, r.msg))]
                   /\ running' = 0
    /\ UNCHANGED <<env, loaderAuth, proc, exit_status, config, voice_generator, s3_client,
                   auth_middleware, wrapper, clock, unitIn, unitOut>>

\* Lines 180 and 186.
ReturnSuccess(i) ==
    /\ inv[i].pc = "L186"
    /\ Scheduled(i)
    /\ LET file_size == FileSize(inv[i].audio_data)
       IN  inv' = [inv EXCEPT ![i] =
                     Finish(@, "returned", SuccessMsg(@.public_url, file_size))]
    /\ running' = 0
    /\ UNCHANGED <<env, loaderAuth, proc, exit_status, config, voice_generator, s3_client,
                   auth_middleware, wrapper, clock, unitIn, unitOut>>

Next ==
    \/ Main
    \/ \E i \in Invocations :
          \/ Call(i)
          \/ EnsureServices(i)
          \/ ValidateText(i)
          \/ ReturnValidationError(i)
          \/ Synthesize(i)
          \/ Upload(i)
          \/ ReturnSuccess(i)

Spec == Init /\ [][Next]_vars

(***************************************************************************)
(* The server with a configuration dict that carries an 'auth' section.    *)
(* load_config of config.py builds none; create_auth_middleware and        *)
(* AuthMiddleware read it from whatever dict initialize_services is given. *)
(***************************************************************************)
InitAuthConfig ==
    /\ ModuleLoaded
    /\ loaderAuth \in AuthSections
    /\ wrapper = (IF auth_required(auth_middleware) THEN auth_middleware ELSE None)

SpecAuthConfig == InitAuthConfig /\ [][Next]_vars

(***************************************************************************)
(* generate_voice wrapped by require_auth of an enabled middleware, as     *)
(* auth_required(middleware)(generate_voice) returns it when it is given   *)
(* such a middleware.                                                      *)
(***************************************************************************)
InitGated ==
    /\ ModuleLoaded
    /\ loaderAuth = [enabled |-> TRUE, api_key |-> Secret]
    /\ LET mw == AuthMiddleware("auth" :> loaderAuth).obj
       IN  wrapper = (IF auth_required(mw) THEN mw ELSE None)

NextGated ==
    \/ Main
    \/ \E i \in Invocations :
          \/ Call(i)
          \/ WrapperRaise(i)
          \/ EnsureServices(i)
          \/ ValidateText(i)
          \/ ReturnValidationError(i)
          \/ Synthesize(i)
          \/ Upload(i)
          \/ ReturnSuccess(i)

SpecGated == InitGated /\ [][NextGated]_vars

(***************************************************************************)
(* Direct calls of AuthMiddleware.is_authenticated and of                  *)
(* AuthMiddleware._extract_api_key, for every middleware and request       *)
(* context of the sets below.                                              *)
(***************************************************************************)
Secrets == {<<"s">>, <<Bearer, "s">>}

HeaderNames == {"X-Custom", "Authorization", "X-API-Key"}

HeaderValues == {<<"s">>, <<"s", "x">>, <<Bearer, "s">>, <<Bearer, Bearer, "s">>, <<>>}

\* Every dict over the header names with values of HeaderValues.
HeaderDicts ==
    UNION {[present -> HeaderValues] : present \in SUBSET HeaderNames}

MetadataDicts == {EmptyDict} \cup {"api_key" :> v : v \in {<<"s">>, <<"s", "x">>, <<Bearer, "s">>}}

AuthContexts ==
    {None}
    \cup {Context(None, m) : m \in MetadataDicts}
    \cup {Context(Request(h), m) : h \in HeaderDicts, m \in MetadataDicts}

MiddlewareSections ==
    {[enabled |-> TRUE, api_key |-> k] : k \in Secrets}
    \cup {[enabled |-> TRUE, api_key |-> k, header_name |-> "X-Custom"] : k \in Secrets}
    \cup {[enabled |-> FALSE], [enabled |-> FALSE, api_key |-> <<"s">>], EmptyDict}

Middlewares == {AuthMiddleware("auth" :> a).obj : a \in MiddlewareSections}

UnitIdle ==
    /\ config = None
    /\ voice_generator = None
    /\ s3_client = None
    /\ auth_middleware = None
    /\ wrapper = None
    /\ loaderAuth = None
    /\ running = 0
    /\ inv = [i \in Invocations |-> IdleInvocation]
    /\ clock = [y |-> 2024, m |-> 3, d |-> 5]
    /\ env = BaseEnv
    /\ proc = "imported"
    /\ exit_status = <<>>
    /\ unitOut = None

ServerUnchanged ==
    UNCHANGED <<env, loaderAuth, proc, exit_status, config, voice_generator, s3_client,
                auth_middleware, wrapper, clock, running, inv>>

InitAuthCheck ==
    /\ UnitIdle
    /\ unitIn \in {[fn |-> f, mw |-> m, context |-> c] :
                      f \in {"is_authenticated", "_extract_api_key"},
                      m \in Middlewares, c \in AuthContexts}

IsAuthenticatedCall ==
    /\ unitIn # None
    /\ unitIn.fn = "is_authenticated"
    /\ unitOut = None
    /\ unitOut' = [type |-> "bool", authenticated |-> is_authenticated(unitIn.mw, unitIn.context)]
    /\ UNCHANGED unitIn
    /\ ServerUnchanged

ExtractApiKeyCall ==
    /\ unitIn # None
    /\ unitIn.fn = "_extract_api_key"
    /\ unitOut = None
    /\ unitOut' = extract_api_key(unitIn.mw, unitIn.context)
    /\ UNCHANGED unitIn
    /\ ServerUnchanged

NextAuthCheck == IsAuthenticatedCall \/ ExtractApiKeyCall

SpecAuthCheck == InitAuthCheck /\ [][NextAuthCheck]_vars

(***************************************************************************)
(* The decode path of VoiceGenerator.generate_voice (lines 73-85) on a     *)
(* response whose data.audio is a given string: the hex of a byte string   *)
(* (source is those bytes) or any string over HexChars (source is None).   *)
(***************************************************************************)
ByteValues == {0, 104, 171, 255}
ByteSeqs == SeqsUpTo(ByteValues, MaxBytesLen)

InitDecode ==
    /\ UnitIdle
    /\ unitIn \in {[fn |-> "decode", hex |-> Hexlify(b), source |-> Bytes(b)] : b \in ByteSeqs}
                  \cup {[fn |-> "decode", hex |-> h, source |-> None] : h \in HexStrings}

DecodeCall ==
    /\ unitIn # None
    /\ unitIn.fn = "decode"
    /\ unitOut = None
    /\ unitOut' = ExtractAudio(AudioBody(JStr(unitIn.hex)))
    /\ UNCHANGED unitIn
    /\ ServerUnchanged

SpecDecode == InitDecode /\ [][DecodeCall]_vars

(***************************************************************************)
(* Direct calls of VoiceGenerator.generate_voice(text, model, voice_id) on *)
(* a generator built from a loaded configuration, for every text, every    *)
(* choice of keyword arguments below and every answer of the speech API.   *)
(***************************************************************************)
VGKwargs ==
    {EmptyDict,
     "model" :> "",
     ("model" :> "speech-02-hd") @@ ("voice_id" :> "voice_c")}

InitSynth ==
    /\ UnitIdle
    /\ unitIn \in {[fn |-> "generate_voice", vg |-> VoiceGenerator(load_config(e).config),
                      text |-> t, kwargs |-> k, resp |-> r] :
                        e \in {x \in Envs : load_config(x).ok},
                        t \in Texts, k \in VGKwargs, r \in Responses}

SynthCall ==
    /\ unitIn # None
    /\ unitIn.fn = "generate_voice"
    /\ unitOut = None
    /\ LET r == VG_generate_voice(unitIn.vg, unitIn.text, unitIn.resp)
       IN  unitOut' = [result |-> r,
                       payload |-> IF r.posts > 0
                                   THEN VG_payload(unitIn.vg, unitIn.text, unitIn.kwargs)
                                   ELSE None]
    /\ UNCHANGED unitIn
    /\ ServerUnchanged

SpecSynth == InitSynth /\ [][SynthCall]_vars

(***************************************************************************)
(* Properties.                                                             *)
(***************************************************************************)
Done(i) == inv[i].pc = "done"

Contains(seq, x) == \E k \in 1..Len(seq) : seq[k] = x

CarriesNoCredential(ctx) ==
    \/ ctx = None
    \/ /\ ctx.request = None \/ DOMAIN ctx.request.headers = {}
       /\ "api_key" \notin DOMAIN ctx.metadata

\* The process ran initialize_services at start (__main__) with a
\* configuration that enables authentication, and holds the middleware.
AuthEnabledInConfig ==
    /\ proc = "serving"
    /\ config # None
    /\ "auth" \in DOMAIN config
    /\ DictGet(config.auth, "enabled", FALSE)
    /\ auth_middleware # None

C2_EveryInvocationReturnsAString ==
    \A i \in Invocations :
        Done(i) => (inv[i].outcome = "returned" /\ inv[i].result # <<>>)

\* C3: an invocation whose text is empty or only whitespace ends with the
\* validation error message and calls neither VoiceGenerator.generate_voice
\* nor upload_to_s3, whatever the state of the service singletons.
IsBlank(text) == \A k \in 1..Len(text) : text[k] \in Whitespace

C3_BlankTextIsAValidationError ==
    \A i \in Invocations :
        (Done(i) /\ IsBlank(inv[i].text))
            => (inv[i].result = ValidationErrorMsg /\ inv[i].calls = <<>>)

\* C4: with authentication enabled, is_authenticated is true exactly when the
\* credential extracted from the request equals the configured secret: true
\* for Authorization: Bearer <secret>, true for X-API-Key: <secret>, false for
\* <secret>x, false without any header, false without a context.
OnlyHeader(context, name, value) ==
    /\ context # None
    /\ context.request # None
    /\ context.request.headers = (name :> value)
    /\ context.metadata = EmptyDict

C4_AuthenticatedIffCredentialIsSecret ==
    (unitIn # None /\ unitIn.fn = "is_authenticated" /\ unitOut # None /\ unitIn.mw.enabled)
        => LET mw == unitIn.mw
               context == unitIn.context
               k == extract_api_key(mw, context)
           IN  /\ unitOut.authenticated <=> (k.found /\ k.value = mw.api_key)
               /\ OnlyHeader(context, "Authorization", <<Bearer>> \o mw.api_key)
                    => unitOut.authenticated
               /\ OnlyHeader(context, "X-API-Key", mw.api_key) => unitOut.authenticated
               /\ OnlyHeader(context, "X-API-Key", mw.api_key \o <<"x">>)
                    => ~unitOut.authenticated
               /\ (context # None /\ CarriesNoCredential(context)) => ~unitOut.authenticated
               /\ context = None => ~unitOut.authenticated

\* C5: with authentication disabled, is_authenticated is true for every
\* input: any headers, any metadata, a wrong credential, none, no context.
C5_DisabledAuthAcceptsEverything ==
    (unitIn # None /\ unitIn.fn = "is_authenticated" /\ unitOut # None /\ ~unitIn.mw.enabled)
        => unitOut.authenticated

\* A disabled middleware has answered for a missing context.
C5_Witness ==
    /\ unitIn # None
    /\ unitIn.fn = "is_authenticated"
    /\ ~unitIn.mw.enabled
    /\ unitIn.context = None
    /\ unitOut # None
    /\ unitOut.authenticated

\* C6: when synthesis fails in one of its three ways (non-success status, a
\* success response without an audio field at data.audio, an audio string
\* that is not valid hex), the result starts with "Voice generation error"
\* and put_object is not called in that invocation.
NoAudioField(json) ==
    \/ json.t # "dict"
    \/ "data" \notin DOMAIN json.v
    \/ json.v["data"].t # "dict"
    \/ "audio" \notin DOMAIN json.v["data"].v

ValidHex(h) == Len(h) % 2 = 0 /\ \A k \in 1..Len(h) : IsHexChar(h[k])

SynthesisFailed(resp) ==
    /\ resp # None
    /\ resp.kind = "response"
    /\ \/ resp.status >= 400
       \/ /\ resp.status = 200
          /\ resp.is_json
          /\ \/ NoAudioField(resp.json)
             \/ /\ resp.json.v["data"].v["audio"].t = "str"
                /\ ~ValidHex(resp.json.v["data"].v["audio"].v)

C6_SynthesisFailureIsVoiceGenerationError ==
    \A i \in Invocations :
        (Done(i) /\ SynthesisFailed(inv[i].resp))
            => /\ Head(inv[i].result) = "Voice generation error: "
               /\ ~Contains(inv[i].calls, "put")

\* C7: an invocation that reaches the done state returns a string that holds
\* the public URL upload returned to it and "Size: N bytes", N being half the
\* length of the hex audio of its synthesis response; "68656c6c6f" gives 5.
ReachedDone(i) == Done(i) /\ inv[i].public_url # ""

ResponseHexOf(i) == inv[i].resp.json.v["data"].v["audio"].v

C7_SuccessMessageHasUrlAndSize ==
    \A i \in Invocations :
        ReachedDone(i)
            => /\ inv[i].outcome = "returned"
               /\ Contains(inv[i].result, inv[i].public_url)
               /\ \E k \in 1..(Len(inv[i].result) - 2) :
                     /\ inv[i].result[k] = "\nSize: "
                     /\ inv[i].result[k + 1] = ToString(Len(ResponseHexOf(i)) \div 2)
                     /\ inv[i].result[k + 2] = " bytes"
               /\ ResponseHexOf(i) = HelloHex => Contains(inv[i].result, "5")

\* An invocation answered with the hex of "hello" has returned its success text.
C7_Witness ==
    \E i \in Invocations :
        /\ ReachedDone(i)
        /\ ResponseHexOf(i) = HelloHex
        /\ Contains(inv[i].result, "5")
        /\ Contains(inv[i].result, inv[i].public_url)

\* C8: the storage key of every put_object call is the configured prefix, the
\* 4-digit year, "/", the 2-digit month, "/", the 2-digit day, "_", the
\* 8-character unique id, "_", the filename; prefix voice-gen/, 2024-03-05,
\* abcd1234 and voice.mp3 give voice-gen/2024/03/05_abcd1234_voice.mp3.
DigitStr == <<"0", "1", "2", "3", "4", "5", "6", "7", "8", "9">>

Digit(n) == DigitStr[n + 1]

TwoDigits(n) == Digit((n \div 10) % 10) \o Digit(n % 10)

FourDigits(n) == TwoDigits(n \div 100) \o TwoDigits(n % 100)

ConfiguredPrefix == DictGet(env, "S3_PREFIX", "voice-gen/")

C8_StorageKeyFormat ==
    \A i \in Invocations :
        inv[i].put # None
            => LET put == inv[i].put
               IN  /\ Len(put.unique_id) = 8
                   /\ put.Key = ConfiguredPrefix \o FourDigits(put.now.y) \o "/"
                                  \o TwoDigits(put.now.m) \o "/" \o TwoDigits(put.now.d)
                                  \o "_" \o put.unique_id \o "_" \o "voice.mp3"
                   /\ (/\ ConfiguredPrefix = "voice-gen/"
                       /\ put.now = [y |-> 2024, m |-> 3, d |-> 5]
                       /\ put.unique_id = "abcd1234")
                        => put.Key = "voice-gen/2024/03/05_abcd1234_voice.mp3"

\* A put_object call was made with the key of the example.
C8_Witness ==
    \E i \in Invocations :
        /\ inv[i].put # None
        /\ inv[i].put.Key = "voice-gen/2024/03/05_abcd1234_voice.mp3"

\* C9: hex-encoding a byte sequence and passing it through the decode path
\* gives the bytes back; an audio string of odd length or with a non-hex
\* character fails with a decode error reported as VoiceGeneratorError and
\* gives no partial blob.
MalformedHex(h) == Len(h) % 2 = 1 \/ \E k \in 1..Len(h) : ~IsHexChar(h[k])

C9_HexDecodeRoundTrip ==
    (unitIn # None /\ unitIn.fn = "decode" /\ unitOut # None)
        => /\ unitIn.source # None
                => (unitOut.ok /\ unitOut.bytes = unitIn.source.v)
           /\ MalformedHex(unitIn.hex)
                => /\ ~unitOut.ok
                   /\ unitOut.exc = "VoiceGeneratorError"
                   /\ "bytes" \notin DOMAIN unitOut

\* C10: the URL upload returns is the configured public base joined with the
\* storage key, or, when S3_PUBLIC_URL_BASE is not set, the default
\* https://{bucket}.s3.{region}.amazonaws.com joined with the storage key.
C10_PublicUrlIsBaseJoinedWithKey ==
    \A i \in Invocations :
        inv[i].public_url # ""
            => LET base == IF "S3_PUBLIC_URL_BASE" \in DOMAIN env
                           THEN env["S3_PUBLIC_URL_BASE"]
                           ELSE "https://" \o env["S3_BUCKET_NAME"] \o ".s3."
                                           \o env["S3_REGION"] \o ".amazonaws.com"
               IN  inv[i].public_url = base \o "/" \o inv[i].put.Key

\* C11: when an invocation omits model (voice_id), the model (voice id) of the
\* payload posted to the speech API is the default of the loaded configuration.
C11_OmittedArgsTakeConfiguredDefaults ==
    \A i \in Invocations :
        inv[i].payload # None
            => /\ "model" \notin DOMAIN inv[i].kwargs
                    => inv[i].payload.model = config.defaults.model
               /\ "voice_id" \notin DOMAIN inv[i].kwargs
                    => inv[i].payload.timber_weights[1].voice_id = config.defaults.voice_id

\* The credential of a request as the specification describes it: the value
\* of the first header present among the configured one, Authorization and
\* X-API-Key, a leading "Bearer " removed from the value of Authorization
\* only; without any of these headers, the metadata field api_key.
FirstPresentHeader(mw, context) ==
    LET names == <<mw.header_name, "Authorization", "X-API-Key">>
        headers == IF context.request = None THEN EmptyDict ELSE context.request.headers
    IN  IF names[1] \in DOMAIN headers THEN names[1]
        ELSE IF names[2] \in DOMAIN headers THEN names[2]
        ELSE IF names[3] \in DOMAIN headers THEN names[3]
        ELSE ""

SpecifiedCredential(mw, context) ==
    IF context = None THEN [found |-> FALSE]
    ELSE LET name == FirstPresentHeader(mw, context)
         IN  IF name # ""
             THEN LET v == context.request.headers[name]
                  IN  [found |-> TRUE,
                       value |-> IF name = "Authorization" /\ v # <<>> /\ v[1] = Bearer
                                 THEN SubSeq(v, 2, Len(v)) ELSE v]
             ELSE IF "api_key" \in DOMAIN context.metadata
             THEN [found |-> TRUE, value |-> context.metadata["api_key"]]
             ELSE [found |-> FALSE]

\* C12: with authentication enabled, the credential extracted is the value of
\* the first header present in the order configured header, Authorization,
\* X-API-Key; the metadata field api_key is used only when none of them is
\* present; a wrong value in an earlier source rejects the request even when
\* a later source holds the secret.
C12_CredentialIsFirstSourcePresent ==
    (unitIn # None /\ unitOut # None /\ unitIn.mw.enabled)
        => LET expected == SpecifiedCredential(unitIn.mw, unitIn.context)
           IN  /\ unitIn.fn = "_extract_api_key" => unitOut = expected
               /\ unitIn.fn = "is_authenticated"
                    => (unitOut.authenticated
                          <=> (expected.found /\ expected.value = unitIn.mw.api_key))

\* The settings make initialization fail: a required variable is missing, or
\* authentication is enabled without a secret.
StartMustFail ==
    \/ \E v \in RequiredVars : v \notin DOMAIN env
    \/ /\ loaderAuth # None
       /\ "enabled" \in DOMAIN loaderAuth
       /\ loaderAuth.enabled
       /\ "api_key" \notin DOMAIN loaderAuth

NoInvocationAccepted == \A i \in Invocations : inv[i] = IdleInvocation

\* C13: when initialization at process start fails (a required setting is
\* missing, or authentication is enabled with no secret), the process ends
\* with a non-zero status and accepts no generate_voice invocation, before or
\* after.
C13_FailedStartNeverServes ==
    /\ (proc # "imported" /\ StartMustFail) => proc \in {"starting", "exited"}
    /\ proc = "starting" => NoInvocationAccepted
    /\ proc = "exited" => /\ exit_status # <<>>
                          /\ exit_status[1] # 0
                          /\ NoInvocationAccepted

\* The process ended with status 1 because authentication is enabled without
\* a secret: every required variable is set and the S3 client was created.
C13_Witness ==
    /\ proc = "exited"
    /\ exit_status = <<1>>
    /\ \A v \in RequiredVars : v \in DOMAIN env
    /\ s3_client # None
    /\ loaderAuth = [enabled |-> TRUE]

\* The number of the day in the proleptic Gregorian calendar, counted from
\* the years, leap days and months that precede it.
DaysBeforeMonth(y, m) ==
    LET cum == <<0, 31, 59, 90, 120, 151, 181, 212, 243, 273, 304, 334>>
        leap == (y % 4 = 0 /\ y % 100 # 0) \/ y % 400 = 0
    IN  cum[m] + (IF leap /\ m > 2 THEN 1 ELSE 0)

DayNumber(t) ==
    LET p == t.y - 1
    IN  365 * p + (p \div 4) - (p \div 100) + (p \div 400) + DaysBeforeMonth(t.y, t.m) + t.d

IsoDate(t) == FourDigits(t.y) \o "-" \o TwoDigits(t.m) \o "-" \o TwoDigits(t.d)

C15_BodyEnteredOnlyWhenAuthenticated ==
    (wrapper # None /\ wrapper.enabled)
        => \A i \in Invocations :
              inv[i].pc # "idle"
                  => IF is_authenticated(wrapper, inv[i].ctx)
                     THEN inv[i].entered
                     ELSE /\ ~inv[i].entered
                          /\ inv[i].pc \in {"W146", "done"}
                          /\ inv[i].inits = 0
                          /\ inv[i].calls = <<>>
                          /\ inv[i].payload = None
                          /\ inv[i].put = None
                          /\ Done(i) => /\ inv[i].outcome = "raised"
                                        /\ inv[i].result = AuthRequiredMsg

\* One call with a wrong key was ended by the wrapper, another with the
\* secret entered the body and posted its synthesis request.
C15_Witness ==
    /\ wrapper # None
    /\ wrapper.enabled
    /\ \E i, j \in Invocations :
          /\ Done(i)
          /\ inv[i].ctx = CtxWrongKey
          /\ inv[i].outcome = "raised"
          /\ inv[j].ctx = CtxWithSecret
          /\ inv[j].entered
          /\ inv[j].calls # <<>>

\* C16: a call of VoiceGenerator.generate_voice whose text is empty after
\* trimming whitespace, whitespace-only text included, fails at once with the
\* validation error and sends no HTTP request to the speech API.
C16_BlankTextSendsNoRequest ==
    (unitIn # None /\ unitIn.fn = "generate_voice" /\ unitOut # None /\ IsBlank(unitIn.text))
        => /\ ~unitOut.result.ok
           /\ unitOut.result.exc = "VoiceGeneratorError"
           /\ unitOut.result.msg = <<"Text cannot be empty">>
           /\ unitOut.result.posts = 0
           /\ unitOut.payload = None

\* The response carries a well-formed hex audio string at data.audio.
DecodableResponse(resp) ==
    /\ resp # None
    /\ resp.kind = "response"
    /\ resp.status = 200
    /\ resp.is_json
    /\ ~NoAudioField(resp.json)
    /\ resp.json.v["data"].v["audio"].t = "str"
    /\ ValidHex(resp.json.v["data"].v["audio"].v)

\* C17: within one invocation at most one synthesis POST and at most one
\* put_object are issued, the put_object only after the synthesis call of
\* that invocation returned a decoded blob, and no POST is issued again after
\* a failure.
C17_OnePostThenOnePut ==
    \A i \in Invocations :
        /\ inv[i].calls \in {<<>>, <<"post">>, <<"post", "put">>}
        /\ Contains(inv[i].calls, "put")
              => /\ DecodableResponse(inv[i].resp)
                 /\ inv[i].audio_data # None
                 /\ 2 * Len(inv[i].audio_data.v) = Len(ResponseHexOf(i))
        /\ (inv[i].resp # None /\ ~DecodableResponse(inv[i].resp))
              => /\ Done(i)
                 /\ inv[i].calls = <<"post">>
                 /\ inv[i].audio_data = None

\* One invocation posted and then uploaded; the other ended after a single
\* POST that the speech API failed.
C17_Witness ==
    \E i, j \in Invocations :
        /\ inv[i].calls = <<"post", "put">>
        /\ Done(j)
        /\ inv[j].calls = <<"post">>
        /\ inv[j].resp.kind = "connection_error"

\* C18: "Bearer " is stripped only from the value of Authorization: a
\* credential from the configured header or from X-API-Key is compared to the
\* secret as it is, so X-API-Key: Bearer <secret> does not authenticate when
\* the secret does not start with "Bearer ".
C18_BearerStrippedFromAuthorizationOnly ==
    (/\ unitIn # None
     /\ unitOut # None
     /\ unitIn.mw.enabled
     /\ unitIn.context # None
     /\ FirstPresentHeader(unitIn.mw, unitIn.context) \notin {"", "Authorization"})
        => LET mw == unitIn.mw
               context == unitIn.context
               raw == context.request.headers[FirstPresentHeader(mw, context)]
           IN  /\ unitIn.fn = "_extract_api_key" => unitOut = [found |-> TRUE, value |-> raw]
               /\ unitIn.fn = "is_authenticated" => (unitOut.authenticated <=> raw = mw.api_key)
               /\ (/\ unitIn.fn = "is_authenticated"
                   /\ mw.api_key[1] # Bearer
                   /\ OnlyHeader(context, "X-API-Key", <<Bearer>> \o mw.api_key))
                      => ~unitOut.authenticated

\* C19: an invocation whose synthesis succeeded and whose put_object call
\* failed ends with an error string that starts with "Unexpected error:" and
\* is not the success text; missing credentials give "S3 credentials not
\* found", a rejection by the backend gives "S3 upload error: " followed by
\* the backend's detail.
C19_UploadFailureIsUnexpectedError ==
    \A i \in Invocations :
        (inv[i].put # None /\ inv[i].put_outcome # "ok")
            => /\ inv[i].audio_data # None
               /\ Done(i)
               /\ inv[i].outcome = "returned"
               /\ inv[i].public_url = ""
               /\ Head(inv[i].result) = "Unexpected error: "
               /\ ~Contains(inv[i].result, "\nSize: ")
               /\ inv[i].put_outcome = "NoCredentialsError"
                    => inv[i].result = <<"Unexpected error: ", "S3 credentials not found">>
               /\ inv[i].put_outcome = "ClientError"
                    => /\ Len(inv[i].result) = 3
                       /\ inv[i].result[2] = "S3 upload error: "
                       /\ inv[i].result[3] = ClientErrorDetail
               /\ inv[i].put_outcome # "NoCredentialsError"
                    => ~Contains(inv[i].result, "S3 credentials not found")

\* One invocation ended on missing credentials and the other on a rejection
\* by the backend, each with its own text.
C19_Witness ==
    \E i, j \in Invocations :
        /\ Done(i)
        /\ inv[i].put_outcome = "NoCredentialsError"
        /\ inv[i].result = <<"Unexpected error: ", "S3 credentials not found">>
        /\ Done(j)
        /\ inv[j].put_outcome = "ClientError"
        /\ Contains(inv[j].result, "S3 upload error: ")

C21_GatingIsDecidedAtModuleLoad ==
    /\ [][wrapper' = wrapper]_vars
    /\ [](/\ wrapper = None
          /\ \A i \in Invocations :
                inv[i].pc # "idle" => (inv[i].entered /\ inv[i].outcome # "raised"))

\* initialize_services has assigned an enabled middleware, and a call made
\* after that, without a credential, entered the body and has posted.
C21_Witness ==
    /\ auth_middleware # None
    /\ auth_middleware.enabled
    /\ wrapper = None
    /\ inv[1].inits = 1
    /\ Done(1)
    /\ inv[2].inits = 0
    /\ inv[2].entered
    /\ CarriesNoCredential(inv[2].ctx)
    /\ inv[2].calls # <<>>

\* The initialize_services run of invocation i raised: the only way to end
\* with "Unexpected error: " without having posted.
InitFailedIn(i) ==
    /\ inv[i].inits > 0
    /\ Done(i)
    /\ inv[i].calls = <<>>
    /\ Head(inv[i].result) = "Unexpected error: "

SuccessfulInitRuns ==
    (IF proc = "serving" THEN 1 ELSE 0)
    + Cardinality({i \in Invocations : inv[i].inits > 0 /\ ~InitFailedIn(i)})

\* C22: with invocations interleaved at their awaited log calls, a
\* successful initialize_services run happens at most once; once the speech
\* client and the storage client are set no step reassigns them or runs
\* initialize_services; every invocation synthesizes and uploads through
\* those shared instances; a step of one invocation leaves the text, blob and
\* result of the other untouched, and each invocation's payload and upload
\* body come from its own text and its own blob.
C22_SharedClientsInitializedOnce ==
    /\ [][(voice_generator # None /\ s3_client # None)
            => /\ voice_generator' = voice_generator
               /\ s3_client' = s3_client
               /\ \A i \in Invocations : inv'[i].inits = inv[i].inits]_vars
    /\ [][\A i, j \in Invocations :
            (i # j /\ inv'[i] # inv[i]) => inv'[j] = inv[j]]_vars
    /\ [](/\ SuccessfulInitRuns <= 1
          /\ \A i \in Invocations :
                /\ inv[i].payload # None
                      => (inv[i].vg = voice_generator /\ inv[i].payload.text = inv[i].text)
                /\ inv[i].put # None
                      => /\ inv[i].s3 = s3_client
                         /\ inv[i].put.Body = inv[i].audio_data.v
                         /\ 2 * Len(inv[i].put.Body) = Len(ResponseHexOf(i)))

\* Two invocations were suspended together before line 153 of an imported
\* server: the one called second ran initialize_services, the one called
\* first found the clients set, and both posted and uploaded through them,
\* each with its own blob.
C22_Witness ==
    /\ proc = "imported"
    /\ inv[1].inits = 0
    /\ inv[2].inits = 1
    /\ inv[1].calls = <<"post", "put">>
    /\ inv[2].calls = <<"post", "put">>
    /\ inv[1].vg = voice_generator
    /\ inv[2].vg = voice_generator
    /\ inv[1].s3 = s3_client
    /\ inv[2].s3 = s3_client
    /\ inv[1].audio_data # inv[2].audio_data

====
